---- MODULE Spec2Model ----
(***************************************************************************)
(* A model of DocToMarkdown.py: the form (vars_dict), start_conversion,    *)
(* the worker thread running run_conversion_logic, the converter child     *)
(* process with its pipes, the shared attachments/media folders, the log   *)
(* widget, and the three re.sub passes of the link rewriting.              *)
(*                                                                         *)
(* Text is a sequence of one-character strings.                            *)
(***************************************************************************)
EXTENDS Integers, Sequences, FiniteSets, TLC

\* ------------------------------------------------------------------ text

NL == "\n"

\* s[a..b] (empty when b < a)
Slice(s, a, b) == IF b < a THEN <<>> ELSE SubSeq(s, a, b)

\* Python's `.` : any character, except a newline unless re.DOTALL is given.
NoNewline(s, a, b) == \A t \in a..b : s[t] # NL

Min(S) == CHOOSE x \in S : \A y \in S : x <= y

\* A pattern fragment spliced into the regular expression, matched at position
\* `at` of s.  Spliced through re.escape (escaped = TRUE) every character stands
\* for itself; spliced as it is (escaped = FALSE) a "." is the regex wildcard.
PatMatch(s, at, pat, escaped) ==
    /\ at + Len(pat) - 1 <= Len(s)
    /\ \A t \in 1..Len(pat) :
          \/ pat[t] # "." /\ s[at + t - 1] = pat[t]
          \/ pat[t] = "." /\ escaped /\ s[at + t - 1] = "."
          \/ pat[t] = "." /\ ~escaped /\ s[at + t - 1] # NL

\* The position of the first ")" at or after `from`, 0 when there is none.
FirstAt(s, from, ch) ==
    LET K == {k \in from..Len(s) : s[k] = ch}
    IN  IF K = {} THEN 0 ELSE Min(K)

\* (\!\[.*?\]\() pat /(.*?)\)  tried at start i: the least j (the "](" ending
\* the lazy group 1) for which the rest matches, then the least k (the ")"
\* ending the lazy group 2).  <<j, k>>, or <<0, 0>> when i starts no match.
RefMatch(s, i, pat, escaped) ==
    LET lit == pat \o <<"/">>
        Close(j) == FirstAt(s, j + 2 + Len(lit), ")")
        J == {j \in (i + 2)..(Len(s) - 1) :
                /\ s[j] = "]" /\ s[j + 1] = "("
                /\ NoNewline(s, i + 2, j - 1)
                /\ PatMatch(s, j + 2, lit, escaped)
                /\ Close(j) # 0
                /\ NoNewline(s, j + 2 + Len(lit), Close(j) - 1)}
    IN  IF i + 1 <= Len(s) /\ s[i] = "!" /\ s[i + 1] = "[" /\ J # {}
        THEN <<Min(J), Close(Min(J))>>
        ELSE <<0, 0>>

\* re.sub of pass 1 (keepAlt: \1 is kept) and of pass 2 (~keepAlt: "![](" is
\* written in its place): sub[pos] is the result for the text from pos on; the
\* leftmost match is replaced, and the scan goes on from its end.
SubRef(s, pat, escaped, keepAlt, name) ==
    LET sub[pos \in 1..(Len(s) + 1)] ==
            IF pos > Len(s) THEN <<>>
            ELSE LET m == RefMatch(s, pos, pat, escaped)
                     j == m[1]
                     k == m[2]
                 IN  IF j = 0
                     THEN <<s[pos]>> \o sub[pos + 1]
                     ELSE (IF keepAlt THEN Slice(s, pos, j + 1)
                                      ELSE <<"!", "[", "]", "(">>)
                          \o <<".", ".", "/">> \o name \o <<"/">>
                          \o Slice(s, j + 2 + Len(pat) + 1, k - 1) \o <<")">>
                          \o sub[k + 1]
    IN  sub[1]

\* (\!\[.*?\]\(.*?\))\{.*?\} with re.DOTALL tried at start i: the least j, then
\* the least k with ")" at k, "{" at k+1 and a "}" after it; the match ends at
\* the first such "}".  <<k, m>>, or <<0, 0>>.
AttrMatch(s, i) ==
    LET Ks(j) == {k \in (j + 2)..(Len(s) - 2) :
                    /\ s[k] = ")" /\ s[k + 1] = "{"
                    /\ FirstAt(s, k + 2, "}") # 0}
        J == {j \in (i + 2)..(Len(s) - 1) :
                s[j] = "]" /\ s[j + 1] = "(" /\ Ks(j) # {}}
    IN  IF i + 1 <= Len(s) /\ s[i] = "!" /\ s[i + 1] = "[" /\ J # {}
        THEN LET k == Min(Ks(Min(J))) IN <<k, FirstAt(s, k + 2, "}")>>
        ELSE <<0, 0>>

\* re.sub of pass 3: the match is replaced by its group 1.
SubAttr(s) ==
    LET sub[pos \in 1..(Len(s) + 1)] ==
            IF pos > Len(s) THEN <<>>
            ELSE LET m == AttrMatch(s, pos)
                 IN  IF m[1] = 0
                     THEN <<s[pos]>> \o sub[pos + 1]
                     ELSE Slice(s, pos, m[1]) \o sub[m[2] + 1]
    IN  sub[1]

\* str(Path(wiki_root_dir) / attachments_dir_name).replace('\\', '/')
AttachmentsPath(root, name) == root \o <<"/">> \o name

Pass1(s, root, name) == SubRef(s, AttachmentsPath(root, name), TRUE, TRUE, name)

Pass2(s, name) == SubRef(s, name, FALSE, FALSE, name)

Pass3(s) == SubAttr(s)

\* content = re.sub(...) three times over: each pass is applied to the text the
\* pass before it returned.
LinkRewrite(s, root, name) ==
    CHOOSE c3 \in {Pass3(c2) : c2 \in {Pass2(c1, name) : c1 \in {Pass1(s, root, name)}}} :
        TRUE


\* ----------------------------------------------------------------- state

MaxClicks == 2      \* start_conversion calls in one session
MaxEmpty  == 1      \* form fields left empty at a click
MaxMedia  == 1      \* media items one converter run extracts
PipeCap   == 1      \* lines an OS pipe buffers before a write blocks

VARIABLES
    vars_dict,    \* the form as it stands at the latest click
    clicks,       \* start_conversion calls so far
    messagebox,   \* the error dialog the latest click showed ("none" if none)
    nthreads,     \* worker threads started; thread r runs request r
    pc,           \* per thread: its position in run_conversion_logic
    args,         \* per thread: the arguments Thread(args=...) captured
    proc,         \* per thread: its converter child process
    listed,       \* per thread: the os.listdir snapshot still to move
    mdfile,       \* per thread: the Markdown file in its output directory
    outdir,       \* per thread: whether its output directory exists
    attDir,       \* whether <wiki root>/<attachments> exists
    mediaDir,     \* whether <wiki root>/<attachments>/media exists
    media,        \* the entries of the media subfolder
    att,          \* the media entries directly in the attachments folder
    log,          \* output_widget: per thread, its lines shown, in order
    stageError,   \* per thread: the stage in which an error occurred ("none")
    remote,       \* per thread: how the remote call went ("not_called" if not made)
    cleaned,      \* per thread: the text the link rewriting wrote
    logged,       \* per thread: how many lines it has inserted into the log
    rw            \* the link rewriting applied to a text on its own

pvars == <<vars_dict, clicks, messagebox, nthreads, pc, args, proc, listed, mdfile,
           outdir, attDir, mediaDir, media, att, log, stageError, remote, cleaned,
           logged>>

vars == <<pvars, rw>>

Threads == 1..MaxClicks

PathKeys == {"pandoc_path", "file_path", "output_dir", "wiki_root_path", "attachments_dir"}

AIKeys == {"gpt_endpoint", "gpt_key", "gpt_deployment", "prompt_text"}

\* The form with every field filled in.
Filled(post) ==
    [pandoc_path |-> <<"p">>, file_path |-> <<"d">>, output_dir |-> <<"o">>,
     wiki_root_path |-> <<"/", "w">>, attachments_dir |-> <<".", "n">>,
     post_process_var |-> post,
     gpt_endpoint |-> <<"e">>, gpt_key |-> <<"k">>, gpt_deployment |-> <<"m">>,
     prompt_text |-> <<"q">>]

\* The forms a click is tried with: at most MaxEmpty fields left empty.
Forms ==
    {[k \in DOMAIN Filled(post) |->
         IF k \in E THEN <<>> ELSE Filled(post)[k]] :
       post \in BOOLEAN,
       E \in {X \in SUBSET (PathKeys \cup AIKeys) : Cardinality(X) <= MaxEmpty}}

NoFile == [exists |-> FALSE, text |-> <<>>]

File(t) == [exists |-> TRUE, text |-> t]

\* A child process: not started ("none"), "running", "blocked" in a write to a
\* full pipe, or "exited" with returncode rc; the lines it has written to its
\* pipe and the media items it has extracted.
NoProc == [state |-> "none", rc |-> 0, written |-> 0, extracted |-> 0]

NoArgs == [post_process |-> FALSE, root |-> <<>>, name |-> <<>>]

RwIdle == [text |-> <<>>, prev |-> <<>>, orig |-> <<>>, n |-> 0,
           root |-> <<>>, name |-> <<>>]

Init ==
    /\ vars_dict = Filled(FALSE)
    /\ clicks = 0
    /\ messagebox = "none"
    /\ nthreads = 0
    /\ pc = [r \in Threads |-> "Idle"]
    /\ args = [r \in Threads |-> NoArgs]
    /\ proc = [r \in Threads |-> NoProc]
    /\ listed = [r \in Threads |-> {}]
    /\ mdfile = [r \in Threads |-> NoFile]
    /\ outdir = [r \in Threads |-> FALSE]
    /\ attDir = FALSE
    /\ mediaDir = FALSE
    /\ media = {}
    /\ att = {}
    /\ log = [r \in Threads |-> <<>>]
    /\ stageError = [r \in Threads |-> "none"]
    /\ remote = [r \in Threads |-> "not_called"]
    /\ cleaned = [r \in Threads |-> <<>>]
    /\ logged = [r \in Threads |-> 0]
    /\ rw = RwIdle

\* output_widget.insert(tk.END, ...) of the lines ls by thread r.  The widget
\* holds one text; the model keeps, per thread, the lines of that thread in it
\* (what it drops is the order of lines of different threads).
Insert(r, ls) ==
    /\ log' = [log EXCEPT ![r] = @ \o ls]
    /\ logged' = [logged EXCEPT ![r] = @ + Len(ls)]

\* ------------------------------------------------------- start_conversion

\* The check of the path fields with the document file left out of its list.
PathsFilledButSource(f) == \A k \in PathKeys \ {"file_path"} : f[k] # <<>>

\* all(v.get() for k, v in vars_dict.items() if k in [...])
PathsFilled(f) == \A k \in PathKeys : f[k] # <<>>

\* all(ai_params.values())
AIFilled(f) == \A k \in AIKeys : f[k] # <<>>

\* The handler of the Convert button, the form standing as f.
start_conversion(f) ==
    /\ clicks < MaxClicks
    /\ clicks' = clicks + 1
    /\ vars_dict' = f
    /\ IF ~PathsFilled(f)
       THEN /\ messagebox' = "paths"
            /\ UNCHANGED <<nthreads, pc, args, log>>
       ELSE IF f.post_process_var /\ ~AIFilled(f)
       THEN /\ messagebox' = "ai"
            /\ UNCHANGED <<nthreads, pc, args, log>>
       ELSE /\ messagebox' = "none"
            /\ log' = [r \in Threads |-> <<>>]
            /\ nthreads' = nthreads + 1
            /\ pc' = [pc EXCEPT ![nthreads + 1] = "Start"]
            /\ args' = [args EXCEPT ![nthreads + 1] =
                          [post_process |-> f.post_process_var,
                           root |-> f.wiki_root_path,
                           name |-> f.attachments_dir]]
    /\ UNCHANGED <<proc, listed, mdfile, outdir, attDir, mediaDir, media, att,
                   stageError, remote, cleaned, logged, rw>>

StartConversion == \E f \in Forms : start_conversion(f)

\* -------------------------------------------------- the converter process

\* What the converter may write as its Markdown output: a document with an image
\* it extracted (referred to by the absolute media path, with an attribute
\* block), or plain text.
ConverterOutputs(root, name) ==
    { <<"!", "[", "a", "]", "(">> \o AttachmentsPath(root, name)
         \o <<"/", "f", ")", "{", "w", "}">>,
      <<"x">> }

\* The response text of the remote service.
AIText == <<"A", "I">>

\* The child extracts one media item into <attachments>/media (--extract-media).
ConvExtract ==
    \E r \in Threads :
        /\ proc[r].state = "running"
        /\ proc[r].extracted < MaxMedia
        /\ proc' = [proc EXCEPT ![r].extracted = @ + 1]
        /\ mediaDir' = TRUE
        /\ media' = media \cup {<<r, proc[r].extracted + 1>>}
        /\ UNCHANGED <<vars_dict, clicks, messagebox, nthreads, pc, args, listed,
                       mdfile, outdir, attDir, att, log, stageError, remote,
                       cleaned, logged, rw>>

\* The child writes one line to its stdout/stderr pipe (subprocess.PIPE).  The
\* parent never reads the pipe, so it holds every line written: a write to a
\* full pipe blocks, and nothing ever makes room for it.
ConvWrite ==
    \E r \in Threads :
        /\ proc[r].state = "running"
        /\ IF proc[r].written < PipeCap
           THEN proc' = [proc EXCEPT ![r].written = @ + 1]
           ELSE proc' = [proc EXCEPT ![r].state = "blocked"]
        /\ UNCHANGED <<vars_dict, clicks, messagebox, nthreads, pc, args, listed,
                       mdfile, outdir, attDir, mediaDir, media, att, log,
                       stageError, remote, cleaned, logged, rw>>

\* The child exits: with status 0 and its output file (-o, in the working
\* directory), or with a non-zero status.
ConvExit ==
    \E r \in Threads, rc \in {0, 2} :
        /\ proc[r].state = "running"
        /\ proc' = [proc EXCEPT ![r].state = "exited", ![r].rc = rc]
        /\ IF rc = 0
           THEN \E doc \in ConverterOutputs(args[r].root, args[r].name) :
                    mdfile' = [mdfile EXCEPT ![r] = File(doc)]
           ELSE UNCHANGED mdfile
        /\ UNCHANGED <<vars_dict, clicks, messagebox, nthreads, pc, args, listed,
                       outdir, attDir, mediaDir, media, att, log, stageError,
                       remote, cleaned, logged, rw>>

\* --------------------------------------------------- run_conversion_logic

\* The except clause of run_conversion_logic: the error banner, and the run ends.
Raise(r, stage, lines) ==
    /\ Insert(r, lines \o <<"unexpected_error">>)
    /\ stageError' = [stageError EXCEPT ![r] = stage]
    /\ pc' = [pc EXCEPT ![r] = "Failed"]

\* From the first log line to subprocess.Popen.
Prepare ==
    \E r \in Threads, launched \in BOOLEAN :
        /\ pc[r] = "Start"
        /\ outdir' = [outdir EXCEPT ![r] = TRUE]
        /\ attDir' = TRUE
        /\ IF launched
           THEN /\ Insert(r, <<"preparing", "command">>)
                /\ proc' = [proc EXCEPT ![r] = [NoProc EXCEPT !.state = "running"]]
                /\ pc' = [pc EXCEPT ![r] = "Invoke"]
                /\ UNCHANGED stageError
           ELSE /\ Raise(r, "Invoke", <<"preparing", "command">>)
                /\ UNCHANGED proc
        /\ UNCHANGED <<vars_dict, clicks, messagebox, nthreads, args, listed,
                       mdfile, mediaDir, media, att, remote, cleaned, rw>>

\* process.wait() returns once the child has exited; then the returncode test.
Wait ==
    \E r \in Threads :
        /\ pc[r] = "Invoke"
        /\ proc[r].state = "exited"
        /\ IF proc[r].rc = 0
           THEN /\ Insert(r, <<"pandoc_ok">>)
                /\ pc' = [pc EXCEPT ![r] = "Relocate"]
                /\ UNCHANGED stageError
           ELSE /\ Insert(r, <<"pandoc_failed">>)
                /\ pc' = [pc EXCEPT ![r] = "Failed"]
                /\ stageError' = [stageError EXCEPT ![r] = "Invoke"]
        /\ UNCHANGED <<vars_dict, clicks, messagebox, nthreads, args, proc, listed,
                       mdfile, outdir, attDir, mediaDir, media, att, remote,
                       cleaned, rw>>

\* media_subfolder.is_dir() and os.listdir(media_subfolder)
RelocateList ==
    \E r \in Threads :
        /\ pc[r] = "Relocate"
        /\ IF mediaDir
           THEN /\ listed' = [listed EXCEPT ![r] = media]
                /\ pc' = [pc EXCEPT ![r] = "RelocateMove"]
           ELSE /\ pc' = [pc EXCEPT ![r] = "Rewrite"]
                /\ UNCHANGED listed
        /\ UNCHANGED <<vars_dict, clicks, messagebox, nthreads, args, proc, mdfile,
                       outdir, attDir, mediaDir, media, att, log, stageError,
                       remote, cleaned, logged, rw>>

\* shutil.move of one listed entry: it raises when the entry is gone.
RelocateMove ==
    \E r \in Threads :
        /\ pc[r] = "RelocateMove"
        /\ \E item \in listed[r] :
             IF item \in media
             THEN /\ media' = media \ {item}
                  /\ att' = att \cup {item}
                  /\ listed' = [listed EXCEPT ![r] = @ \ {item}]
                  /\ UNCHANGED <<pc, log, logged, stageError>>
             ELSE /\ Raise(r, "Relocate", <<>>)
                  /\ UNCHANGED <<media, att, listed>>
        /\ UNCHANGED <<vars_dict, clicks, messagebox, nthreads, args, proc, mdfile,
                       outdir, attDir, mediaDir, remote, cleaned, rw>>

\* media_subfolder.rmdir(): it raises when the folder is gone or not empty.
RelocateRmdir ==
    \E r \in Threads :
        /\ pc[r] = "RelocateMove"
        /\ listed[r] = {}
        /\ IF mediaDir /\ media = {}
           THEN /\ mediaDir' = FALSE
                /\ pc' = [pc EXCEPT ![r] = "Rewrite"]
                /\ UNCHANGED <<log, logged, stageError>>
           ELSE /\ Raise(r, "Relocate", <<>>)
                /\ UNCHANGED mediaDir
        /\ UNCHANGED <<vars_dict, clicks, messagebox, nthreads, args, proc, listed,
                       mdfile, outdir, attDir, media, att, remote, cleaned, rw>>

\* open(output_file_path, 'r+'), the three re.sub passes, seek/write/truncate;
\* then, without post-processing, the closing banner.
Rewrite ==
    \E r \in Threads :
        /\ pc[r] = "Rewrite"
        /\ IF ~mdfile[r].exists
           THEN /\ Raise(r, "Rewrite", <<>>)
                /\ UNCHANGED <<mdfile, cleaned>>
           ELSE LET out == LinkRewrite(mdfile[r].text, args[r].root, args[r].name)
                IN  /\ mdfile' = [mdfile EXCEPT ![r] = File(out)]
                    /\ cleaned' = [cleaned EXCEPT ![r] = out]
                    /\ UNCHANGED stageError
                    /\ IF args[r].post_process
                       THEN /\ Insert(r, <<"cleanup_complete">>)
                            /\ pc' = [pc EXCEPT ![r] = "RemoteRewrite"]
                       ELSE /\ Insert(r, <<"cleanup_complete", "completed">>)
                            /\ pc' = [pc EXCEPT ![r] = "Done"]
        /\ UNCHANGED <<vars_dict, clicks, messagebox, nthreads, args, proc, listed,
                       outdir, attDir, mediaDir, media, att, remote, rw>>

\* What post_process_with_ai leaves of the file: "ok" writes the response;
\* "error" is an exception before open(file_path, 'w') (the request fails, or
\* response.choices is empty); "no_content" is a response whose message.content is
\* None: open(..., 'w') has truncated the file when f.write(None) raises.
AfterRemote(outcome, file) ==
    CASE outcome = "ok"    -> File(AIText)
      [] outcome = "error" -> file
      [] outcome = "no_content" -> File(<<>>)

\* post_process_with_ai, which catches its own exceptions and returns, and the
\* closing banner its caller inserts next.
RemoteRewrite ==
    \E r \in Threads, outcome \in {"ok", "error", "no_content"} :
        /\ pc[r] = "RemoteRewrite"
        /\ remote' = [remote EXCEPT ![r] = outcome]
        /\ mdfile' = [mdfile EXCEPT ![r] = AfterRemote(outcome, @)]
        /\ Insert(r, <<"ai_start", IF outcome = "ok" THEN "ai_ok" ELSE "ai_error",
                       "completed">>)
        /\ stageError' = [stageError EXCEPT ![r] =
                            IF outcome = "ok" THEN "none" ELSE "RemoteRewrite"]
        /\ pc' = [pc EXCEPT ![r] = "Done"]
        /\ UNCHANGED <<vars_dict, clicks, messagebox, nthreads, args, proc, listed,
                       outdir, attDir, mediaDir, media, att, cleaned, rw>>

Converter == ConvExtract \/ ConvWrite \/ ConvExit

Worker == Prepare \/ Wait \/ RelocateList \/ RelocateMove \/ RelocateRmdir
          \/ Rewrite \/ RemoteRewrite

Next ==
    \/ StartConversion
    \/ ConvExtract
    \/ ConvWrite
    \/ ConvExit
    \/ Prepare
    \/ Wait
    \/ RelocateList
    \/ RelocateMove
    \/ RelocateRmdir
    \/ Rewrite
    \/ RemoteRewrite

Spec == Init /\ [][Next]_vars

\* Threads are scheduled and the child process runs: a step that stays possible
\* is eventually taken.  (No fairness on the user's clicks.)
FairSpec == Init /\ [][Next]_vars /\ WF_vars(Worker) /\ WF_vars(Converter)

\* ------------------------------------------- the link rewriting on its own

MaxFrags == 4       \* fragments a text under rewriting is put together from

\* The pieces of Markdown the texts are put together from: an image reference's
\* opening with and without alt text, the attachments path and folder name as
\* targets, a target that only resembles the folder name, a filename closing a
\* reference, an attribute block, an opening parenthesis, a line break.
Frags(root, name) ==
    { <<"!", "[", "a", "]", "(">>,
      <<"!", "[", "]", "(">>,
      AttachmentsPath(root, name) \o <<"/">>,
      name \o <<"/">>,
      <<"x", "n", "/">>,
      <<"f", ")">>,
      <<"{", "w", "}">>,
      <<" ", "(">>,
      <<NL>> }

RECURSIVE Texts(_, _, _)
Texts(n, root, name) ==
    IF n = 0 THEN {<<>>}
    ELSE LET T == Texts(n - 1, root, name)
         IN  T \cup {t \o f : t \in T, f \in Frags(root, name)}

\* The attachments folder names tried: a plain one, and one with a leading dot
\* as the form's default ".attachments" has.
FolderNames == {<<"n">>, <<".", "n">>}

InitRewrite ==
    /\ vars_dict = Filled(FALSE)
    /\ clicks = 0
    /\ messagebox = "none"
    /\ nthreads = 0
    /\ pc = [r \in Threads |-> "Idle"]
    /\ args = [r \in Threads |-> NoArgs]
    /\ proc = [r \in Threads |-> NoProc]
    /\ listed = [r \in Threads |-> {}]
    /\ mdfile = [r \in Threads |-> NoFile]
    /\ outdir = [r \in Threads |-> FALSE]
    /\ attDir = FALSE
    /\ mediaDir = FALSE
    /\ media = {}
    /\ att = {}
    /\ log = [r \in Threads |-> <<>>]
    /\ stageError = [r \in Threads |-> "none"]
    /\ remote = [r \in Threads |-> "not_called"]
    /\ cleaned = [r \in Threads |-> <<>>]
    /\ logged = [r \in Threads |-> 0]
    /\ \E name \in FolderNames :
         \E t \in Texts(MaxFrags, <<"/", "w">>, name) :
            rw = [text |-> t, prev |-> t, orig |-> t, n |-> 0,
                  root |-> <<"/", "w">>, name |-> name]

\* The three passes applied to the text, at most twice in succession.
ApplyRewrite ==
    /\ rw.n < 2
    /\ rw' = [rw EXCEPT !.prev = rw.text,
                        !.text = LinkRewrite(rw.text, rw.root, rw.name),
                        !.n = @ + 1]
    /\ UNCHANGED pvars

SpecRewrite == InitRewrite /\ [][ApplyRewrite]_vars

\* ------------------------------------------------------------ properties

Terminal == {"Done", "Failed"}

Range(q) == {q[i] : i \in DOMAIN q}

\* The stage a position of run_conversion_logic belongs to.
StageOf(p) == IF p = "RelocateMove" THEN "Relocate" ELSE p

\* The moves of the pipeline's state machine as the specification draws it:
\* Start -> Invoke -> Relocate -> Rewrite -> (RemoteRewrite if enabled) -> Done,
\* any stage -> Failed.
PipelineMove(a, b, post) ==
    \/ a = "Idle" /\ b = "Start"
    \/ a = "Start" /\ b = "Invoke"
    \/ a = "Invoke" /\ b = "Relocate"
    \/ a = "Relocate" /\ b = "Rewrite"
    \/ a = "Rewrite" /\ b = "RemoteRewrite" /\ post
    \/ a = "Rewrite" /\ b = "Done" /\ ~post
    \/ a = "RemoteRewrite" /\ b = "Done"
    \/ a \in {"Start", "Invoke", "Relocate", "Rewrite", "RemoteRewrite"} /\ b = "Failed"

\* C1: in every run the stages execute in the order Invoke, Relocate, Rewrite,
\* then RemoteRewrite only when remote rewrite is enabled; a stage in which an
\* error occurs moves the run directly to Failed, and Done and Failed are
\* terminal.
C1_StagesInOrderFailureEndsRun ==
    [][\A r \in Threads :
          /\ StageOf(pc'[r]) # StageOf(pc[r])
                => PipelineMove(StageOf(pc[r]), StageOf(pc'[r]), args'[r].post_process)
          /\ stageError'[r] # stageError[r] => pc'[r] = "Failed"
          /\ pc[r] \in Terminal => pc'[r] = pc[r]]_vars

\* C2: when remote rewrite is enabled and the remote call fails, the run ends
\* Failed at RemoteRewrite, not Done, and does not report the conversion as
\* completed successfully.
C2_RemoteFailureFailsRun ==
    \A r \in Threads :
        remote[r] \in {"error", "no_content"}
            => /\ pc[r] = "Failed"
               /\ stageError[r] = "RemoteRewrite"
               /\ "completed" \notin Range(log[r])

\* C3: when the remote rewrite stage fails, for whatever reason, the Markdown
\* file on disk is exactly the content the link rewriting wrote.
C3_RemoteFailureKeepsFile ==
    \A r \in Threads :
        remote[r] \in {"error", "no_content"} => mdfile[r] = File(cleaned[r])

\* A request with an empty required field, or with remote rewrite enabled and
\* one of its four parameters empty.
Incomplete(f) ==
    \/ \E k \in PathKeys : Len(f[k]) = 0
    \/ f.post_process_var = TRUE /\ \E k \in AIKeys : Len(f[k]) = 0

\* C4: a click with an incomplete request is rejected: it shows the error
\* dialog, starts no worker and no process, touches no file or directory, and
\* leaves the log as it is.
C4_IncompleteRequestRejected ==
    [][(clicks' = clicks + 1 /\ Incomplete(vars_dict'))
          => /\ messagebox' # "none"
             /\ UNCHANGED <<nthreads, pc, args, proc, listed, mdfile, outdir,
                            attDir, mediaDir, media, att, log, logged>>]_vars

\* C4's case: with one conversion in flight, a second click with remote rewrite
\* enabled and one of its parameters empty has been rejected.
C4_Witness ==
    /\ clicks = 2
    /\ Incomplete(vars_dict)
    /\ messagebox = "ai"
    /\ nthreads = 1
    /\ pc[1] = "Invoke"
    /\ proc[1].state = "running"

\* The lines of the converter's output shown in the log for thread r.
ConverterLinesShown(r) ==
    Cardinality({i \in DOMAIN log[r] : log[r][i] = "converter_line"})

\* C5: every line the converter wrote to its pipe is in the log by the time the
\* run has ended (taken for the latest run, whose lines no later click cleared).
C5_ConverterOutputForwarded ==
    \A r \in Threads :
        (r = nthreads /\ pc[r] \in Terminal)
            => ConverterLinesShown(r) = proc[r].written

\* C6: the three passes applied to the output of the three passes change nothing.
C6_RewriteIdempotent == rw.n = 2 => rw.text = rw.prev

\* ![alt](P/F) for the attachments path P of (root, name) and the filename "f"
ImageRef(alt, root, name) ==
    <<"!", "[">> \o alt \o <<"]", "(">> \o AttachmentsPath(root, name)
        \o <<"/", "f", ")">>

\* C7: ![alt](P/F) is rewritten to exactly ![](../<name>/F).
C7_AbsoluteRefRewritten ==
    \A alt \in {<<>>, <<"a">>} :
        (rw.n = 1 /\ rw.orig = ImageRef(alt, rw.root, rw.name))
            => rw.text = <<"!", "[", "]", "(", ".", ".", "/">> \o rw.name
                            \o <<"/", "f", ")">>

\* The image references of s as Markdown reads them: "![" at i, the first "]"
\* after it at j followed by "(", the first ")" after that at k.
ImageRefs(s) ==
    {m \in (1..Len(s)) \X (1..Len(s)) \X (1..Len(s)) :
        /\ m[1] + 1 <= Len(s) /\ s[m[1]] = "!" /\ s[m[1] + 1] = "["
        /\ m[2] = FirstAt(s, m[1] + 2, "]")
        /\ m[2] + 1 <= Len(s) /\ s[m[2] + 1] = "("
        /\ m[3] = FirstAt(s, m[2] + 2, ")")}

\* s holds nothing the rewriting is to change: no image reference whose target
\* starts with the attachments path or the folder name and a slash, and no
\* image reference directly followed by an opening brace.
NothingToRewrite(s, root, name) ==
    \A m \in ImageRefs(s) :
        /\ ~PatMatch(s, m[2] + 2, AttachmentsPath(root, name) \o <<"/">>, TRUE)
        /\ ~PatMatch(s, m[2] + 2, name \o <<"/">>, TRUE)
        /\ ~(m[3] + 1 <= Len(s) /\ s[m[3] + 1] = "{")

\* C8: the rewriting changes only image references that point into the
\* attachments directory and attribute blocks directly after an image
\* reference; a text holding neither is returned unchanged.
C8_UnrelatedTextKept ==
    (rw.n = 1 /\ NothingToRewrite(rw.orig, rw.root, rw.name)) => rw.text = rw.orig

\* C9: every started run eventually reaches Done or Failed, whatever the
\* converter writes to its pipes.
C9_RunTerminates ==
    \A r \in Threads : (pc[r] = "Start") ~> (pc[r] \in Terminal)

\* log[r] as it was is the beginning of log[r] as it is now.
KeepsLines(before, after) ==
    Len(before) <= Len(after) /\ SubSeq(after, 1, Len(before)) = before

\* C10: with two conversions running at once on one wiki root, no run's Relocate
\* stage fails on media the other run's converter or Relocate stage is handling,
\* and no line of a run still going is taken out of the log.
C10_ConcurrentRunsIndependent ==
    /\ [](\A r \in Threads : stageError[r] # "Relocate")
    /\ [][\A r \in Threads :
             pc[r] \notin (Terminal \cup {"Idle"}) => KeepsLines(log[r], log'[r])]_vars

====
